---------------------------- MODULE Spec2Model ----------------------------
(***************************************************************************)
(* Zoom attendance analyzer (analyze_attendance.py).                       *)
(*                                                                         *)
(* main() processes a list of CSV files one after the other; for each one  *)
(* analyze_file() loads the rows, resolves the class window from the       *)
(* professor's rows, drops the excluded identities, aggregates the rows    *)
(* per 'User Name', derives the percentage / lateness / flags / status     *)
(* and saves a report.                                                     *)
(*                                                                         *)
(* Units.  Timestamps are whole seconds.  'Duration(Minutes)' cells and    *)
(* their sums are hundredths of a minute.  Every value the code rounds     *)
(* to one decimal (Total_Minutes, Late_Join_Min, Left_Early_Min,           *)
(* Pct_Attended) is kept in tenths (of a minute, or of a percent).         *)
(*                                                                         *)
(* Floats.  round() and Series.round() round half to even; a division by   *)
(* a zero class_duration raises nothing and leaves inf or NaN; a           *)
(* comparison with NaN is False.  Every timestamp cell of the model is a   *)
(* text (parseable or not), never blank, so no NaT enters the frame.       *)
(***************************************************************************)
EXTENDS Integers, Sequences, FiniteSets

VARIABLES
    pc,           \* position of main(): "main", "loop", "analyzed", "done", "exit", "raised"
    config,       \* the configuration passed to analyze_file
    files,        \* number of files main() still has to process
    csv,          \* rows of the CSV file handed to the current analyze_file call
    class_start,  \* analyze_file local
    class_end,    \* analyze_file local
    summary,      \* analyze_file local: the per-participant summary frame
    error         \* the exception that left main(), "" when none

vars == <<pc, config, files, csv, class_start, class_end, summary, error>>

---------------------------------------------------------------------------
(* Bounds of the model *)

MaxRows == 2

MaxFiles == 2

---------------------------------------------------------------------------
(* CONFIG *)

professor == <<"b","e","t","h"," ","b","o","n","s","i","g","n","o","r","e">>

exclude ==
    << <<"b","e","t","h"," ","b","o","n","s","i","g","n","o","r","e">>,
       <<"j","a","y"," ","w","a","l","t","e","r">>,
       <<"V","i","v","e","k"," ","C","h","a","u","r","a","s","i","a">> >>

min_attendance_pct == 50

late_threshold_min == 10

early_leave_threshold_min == 10

\* ghost_join_max_min as shipped, and the strictest value a class can edit it to
GhostJoinChoices == {2, 0}

CONFIG(g) ==
    [ professor                 |-> professor,
      exclude                   |-> exclude,
      min_attendance_pct        |-> min_attendance_pct,
      late_threshold_min        |-> late_threshold_min,
      early_leave_threshold_min |-> early_leave_threshold_min,
      ghost_join_max_min        |-> g ]

---------------------------------------------------------------------------
(* str.lower() *)

UpperCase == <<"A","B","C","D","E","F","G","H","I","J","K","L","M","N","O","P","Q","R","S","T","U","V","W","X","Y","Z">>

LowerCase == <<"a","b","c","d","e","f","g","h","i","j","k","l","m","n","o","p","q","r","s","t","u","v","w","x","y","z">>

\* upper-case letter -> lower-case letter
LowerTable ==
    [c \in {UpperCase[i] : i \in DOMAIN UpperCase} |->
        LowerCase[CHOOSE i \in DOMAIN UpperCase : UpperCase[i] = c]]

LowerChar(c) == IF c \in DOMAIN LowerTable THEN LowerTable[c] ELSE c

Lower(s) == [i \in DOMAIN s |-> LowerChar(s[i])]

---------------------------------------------------------------------------
(* Cells of a CSV file *)

Stamp(t) == [kind |-> "timestamp", t |-> t]     \* a date-time text, t seconds

Junk == [kind |-> "junk", t |-> 0]              \* a text that is no date-time

Num(v) == [kind |-> "number", v |-> v]          \* a number, v hundredths of a minute

Text == [kind |-> "text", v |-> 0]              \* a non-numeric duration cell

NaN == [nan |-> TRUE, v |-> 0]

Float(v) == [nan |-> FALSE, v |-> v]

\* an empty 'User Name' cell: read_csv makes it NaN
NoName == <<>>

Row(n, j, l, d) ==
    [User_Name |-> n, Join_time |-> j, Leave_time |-> l, Duration |-> d]

\* pd.to_datetime on a column: raises when a cell is no date-time
to_datetime_raises(rows, col) == \E i \in DOMAIN rows : rows[i][col].kind = "junk"

\* pd.to_numeric(errors='coerce') on one cell
to_numeric(cell) == IF cell.kind = "number" THEN Float(cell.v) ELSE NaN

\* the frame after lines 78-82
Load(rows) ==
    [i \in DOMAIN rows |->
        Row(rows[i].User_Name, rows[i].Join_time.t, rows[i].Leave_time.t,
            to_numeric(rows[i].Duration))]

---------------------------------------------------------------------------
(* Series reductions *)

Min(S) == CHOOSE x \in S : \A y \in S : x <= y

Max(S) == CHOOSE x \in S : \A y \in S : x >= y

RECURSIVE SumOver(_, _)
SumOver(f, S) ==
    IF S = {} THEN 0
    ELSE LET x == CHOOSE y \in S : TRUE IN f[x] + SumOver(f, S \ {x})

\* n / d rounded to the nearest integer, half to even, d > 0
RoundDivPos(n, d) ==
    LET q == n \div d
        r == n % d
    IN  IF 2 * r < d THEN q
        ELSE IF 2 * r > d THEN q + 1
        ELSE IF q % 2 = 0 THEN q ELSE q + 1

RoundDiv(n, d) == IF d > 0 THEN RoundDivPos(n, d) ELSE RoundDivPos(-n, -d)

---------------------------------------------------------------------------
(* Class window, lines 84-94 *)

\* variant: the professor is matched case-sensitively
prof_rows_exact(df, cfg) ==
    {i \in DOMAIN df : df[i].User_Name = cfg.professor}

\* indices of the professor's rows
prof_rows(df, cfg) ==
    LET name == Lower(cfg.professor)
    IN  {i \in DOMAIN df : Lower(df[i].User_Name) = name}

ClassStart(df, cfg) ==
    LET rows == prof_rows(df, cfg)
    IN  IF rows = {}
        THEN Min({df[i].Join_time : i \in DOMAIN df})
        ELSE Min({df[i].Join_time : i \in rows})

ClassEnd(df, cfg) ==
    LET rows == prof_rows(df, cfg)
    IN  IF rows = {}
        THEN Max({df[i].Leave_time : i \in DOMAIN df})
        ELSE Max({df[i].Leave_time : i \in rows})

\* class_duration, in seconds (the code divides by 60 where it uses it)
class_duration(cstart, cend) == cend - cstart

---------------------------------------------------------------------------
(* Filter out professor/TAs, lines 101-103 *)

\* variant: the exclude list is used as configured, not lower-cased
exclude_as_configured(cfg) == {cfg.exclude[k] : k \in DOMAIN cfg.exclude}

exclude_lower(cfg) == {Lower(cfg.exclude[k]) : k \in DOMAIN cfg.exclude}

\* indices of the rows kept in 'students'; NaN.isin(...) is False, so a row
\* without a name is kept
students(df, cfg) ==
    LET excluded == exclude_lower(cfg)
    IN  {i \in DOMAIN df : Lower(df[i].User_Name) \notin excluded}

---------------------------------------------------------------------------
(* agg_student, lines 106-122; grp is the set of row indices of one group *)

\* variant: the sum runs over the whole frame instead of the group
total_min_frame(df, grp) ==
    SumOver([i \in DOMAIN df |-> IF df[i].Duration.nan THEN 0
                                 ELSE df[i].Duration.v], DOMAIN df)

\* grp['Duration(Minutes)'].sum(): NaN is skipped
total_min(df, grp) ==
    SumOver([i \in grp |-> IF df[i].Duration.nan THEN 0
                           ELSE df[i].Duration.v], grp)

\* round(total_min, 1), in tenths of a minute
Round1(hundredths) == RoundDiv(hundredths, 10)

\* variant: a session as long as the threshold counts as real
real_sessions_inclusive(df, grp, cfg) ==
    {i \in grp : /\ ~df[i].Duration.nan
                 /\ df[i].Duration.v >= cfg.ghost_join_max_min * 100}

\* a comparison with NaN is False
real_sessions(df, grp, cfg) ==
    {i \in grp : /\ ~df[i].Duration.nan
                 /\ df[i].Duration.v > cfg.ghost_join_max_min * 100}

agg_student(df, grp, cfg) ==
    [ Total_Minutes |-> Round1(total_min(df, grp)),
      Raw_Sessions  |-> Cardinality(grp),
      Real_Sessions |-> Cardinality(real_sessions(df, grp, cfg)),
      First_Join    |-> Min({df[i].Join_time : i \in grp}),
      Last_Leave    |-> Max({df[i].Leave_time : i \in grp}) ]

\* students.groupby('User Name'): one group per distinct 'User Name' value,
\* the rows whose key is NaN are dropped
GroupKeys(df, cfg) == {df[i].User_Name : i \in students(df, cfg)} \ {NoName}

Group(df, cfg, key) == {i \in students(df, cfg) : df[i].User_Name = key}

---------------------------------------------------------------------------
(* Derived columns, lines 127-141 *)

\* Total_Minutes / class_duration * 100, rounded to one decimal: tenths of a
\* percent, or the float the division by a zero class_duration leaves
Pct_Attended(total_tenths, dur_seconds) ==
    IF dur_seconds # 0
    THEN [kind |-> "num", v |-> RoundDiv(total_tenths * 6000, dur_seconds)]
    ELSE IF total_tenths > 0 THEN [kind |-> "inf", v |-> 0]
    ELSE [kind |-> "nan", v |-> 0]

\* pct >= min_attendance_pct on floats: inf compares greater, NaN compares False
PctAtLeast(pct, min_pct) ==
    \/ pct.kind = "inf"
    \/ pct.kind = "num" /\ pct.v >= min_pct * 10

\* (seconds / 60).round(1).clip(lower=0), in tenths of a minute
ClippedMinutes(seconds) ==
    LET rounded == RoundDiv(seconds * 10, 60)
    IN  IF rounded < 0 THEN 0 ELSE rounded

Late_Join_Min(first_join, cstart) == ClippedMinutes(first_join - cstart)

Left_Early_Min(last_leave, cend) == ClippedMinutes(cend - last_leave)

\* variant: a lateness equal to the threshold sets the flag
Is_Late_inclusive(late_tenths, cfg) == late_tenths >= cfg.late_threshold_min * 10

Is_Late(late_tenths, cfg) == late_tenths > cfg.late_threshold_min * 10

Left_Early(early_tenths, cfg) == early_tenths > cfg.early_leave_threshold_min * 10

Reconnected(real_count) == real_count > 1

Ghost_Only(total_tenths, cfg) == total_tenths <= cfg.ghost_join_max_min * 10

\* variant: the percentage is looked at before the ghost flag
Status_PresentFirst(ghost_only, pct, cfg) ==
    IF PctAtLeast(pct, cfg.min_attendance_pct) THEN "Present"
    ELSE IF ghost_only THEN "Ghost Join"
    ELSE "Absent/Brief"

Status(ghost_only, pct, cfg) ==
    IF ghost_only THEN "Ghost Join"
    ELSE IF PctAtLeast(pct, cfg.min_attendance_pct) THEN "Present"
    ELSE "Absent/Brief"

---------------------------------------------------------------------------
(* build_flags, lines 144-154 *)

\* variant: 'ghost join' is an elif of 'reconnected'
build_flags_elif(is_late, left_early, reconnected, ghost_only) ==
       (IF is_late     THEN <<"late">>        ELSE <<>>)
    \o (IF left_early  THEN <<"left early">>  ELSE <<>>)
    \o (IF reconnected THEN <<"reconnected">>
        ELSE IF ghost_only THEN <<"ghost join">> ELSE <<>>)

build_flags(is_late, left_early, reconnected, ghost_only) ==
       (IF is_late     THEN <<"late">>        ELSE <<>>)
    \o (IF left_early  THEN <<"left early">>  ELSE <<>>)
    \o (IF reconnected THEN <<"reconnected">> ELSE <<>>)
    \o (IF ghost_only  THEN <<"ghost join">>  ELSE <<>>)

---------------------------------------------------------------------------
(* The summary frame of one file, lines 124-156 *)

SummaryRow(df, cfg, key, cstart, cend) ==
    LET a     == agg_student(df, Group(df, cfg, key), cfg)
        pct   == Pct_Attended(a.Total_Minutes, class_duration(cstart, cend))
        late  == Late_Join_Min(a.First_Join, cstart)
        early == Left_Early_Min(a.Last_Leave, cend)
        ghost == Ghost_Only(a.Total_Minutes, cfg)
    IN  [ User_Name      |-> key,
          Total_Minutes  |-> a.Total_Minutes,
          Raw_Sessions   |-> a.Raw_Sessions,
          Real_Sessions  |-> a.Real_Sessions,
          First_Join     |-> a.First_Join,
          Last_Leave     |-> a.Last_Leave,
          Pct_Attended   |-> pct,
          Late_Join_Min  |-> late,
          Left_Early_Min |-> early,
          Is_Late        |-> Is_Late(late, cfg),
          Left_Early     |-> Left_Early(early, cfg),
          Reconnected    |-> Reconnected(a.Real_Sessions),
          Ghost_Only     |-> ghost,
          Status         |-> Status(ghost, pct, cfg),
          Flags          |-> build_flags(Is_Late(late, cfg), Left_Early(early, cfg),
                                         Reconnected(a.Real_Sessions), ghost) ]

Summary(df, cfg, cstart, cend) ==
    {SummaryRow(df, cfg, key, cstart, cend) : key \in GroupKeys(df, cfg)}

---------------------------------------------------------------------------
(* The CSV files the model feeds to analyze_file *)

ProfessorRowName == <<"B","e","t","h"," ","B","o","n","s","i","g","n","o","r","e">>

AssistantRowName == <<"v","i","v","e","k"," ","c","h","a","u","r","a","s","i","a">>

StudentNames == { <<"a","l","i","c","e">>, <<"A","l","i","c","e">> }

NameValues == {ProfessorRowName, AssistantRowName} \cup StudentNames

TimeValues == {0, 602, 660}

SpanValues == {<<Stamp(j), Stamp(l)>> : j \in TimeValues, l \in TimeValues}

DurationCells == {Num(2), Num(200), Num(600), Text}

\* the professor and the students with every span, the students with every
\* duration cell, an assistant and a row without a name that span the longest
\* window, and a student row with an unparseable join or leave time
RowValues ==
    {Row(n, s[1], s[2], Num(600)) : n \in {ProfessorRowName} \cup StudentNames, s \in SpanValues}
        \cup {Row(n, Stamp(0), Stamp(660), d) : n \in StudentNames, d \in DurationCells}
        \cup {Row(n, Stamp(0), Stamp(660), Num(600)) : n \in {AssistantRowName, NoName}}
        \cup {Row(n, Junk, Stamp(660), Num(600)) : n \in StudentNames}
        \cup {Row(n, Stamp(0), Junk, Num(600)) : n \in StudentNames}

CsvFiles == UNION {[1..n -> RowValues] : n \in 0..MaxRows}

---------------------------------------------------------------------------
(* main() and analyze_file() *)

Init ==
    /\ pc = "main"
    /\ config \in {CONFIG(g) : g \in GhostJoinChoices}
    /\ files = 0
    /\ csv = <<>>
    /\ class_start = 0
    /\ class_end = 0
    /\ summary = {}
    /\ error = ""

\* lines 260-273: the list of files to process
Main ==
    /\ pc = "main"
    /\ \E n \in 1..MaxFiles : files' = n
    /\ pc' = "loop"
    /\ UNCHANGED <<config, csv, class_start, class_end, summary, error>>

\* lines 268-270: --all with no CSV file in the folder
MainNoFiles ==
    /\ pc = "main"
    /\ pc' = "exit"
    /\ UNCHANGED <<config, files, csv, class_start, class_end, summary, error>>

\* the exception analyze_file(rows) ends with, "" when it returns
Raises(rows, cfg) ==
    IF to_datetime_raises(rows, "Join_time") \/ to_datetime_raises(rows, "Leave_time")
    THEN "DateParseError"                 \* lines 80-81
    ELSE IF rows # <<>> /\ \A i \in DOMAIN rows : rows[i].User_Name = NoName
    THEN "AttributeError"                 \* line 85: .str on a column of NaN
    ELSE IF rows = <<>>
    THEN "ValueError"                     \* line 95: strftime of NaT
    ELSE IF GroupKeys(Load(rows), cfg) = {}
    THEN "KeyError"                       \* line 127: the empty frame has no 'Total_Minutes'
    ELSE ""

\* line 276, analyze_file runs to its return
AnalyzeFile ==
    /\ pc = "loop"
    /\ files > 0
    /\ \E rows \in CsvFiles :
         /\ Raises(rows, config) = ""
         /\ LET df     == Load(rows)
                cstart == ClassStart(df, config)
                cend   == ClassEnd(df, config)
            IN  /\ csv' = rows
                /\ class_start' = cstart
                /\ class_end' = cend
                /\ summary' = Summary(df, config, cstart, cend)
    /\ files' = files - 1
    /\ pc' = "analyzed"
    /\ UNCHANGED <<config, error>>

\* line 276, analyze_file raises; nothing catches it (lines 282-286 catch
\* KeyboardInterrupt only)
AnalyzeFileRaises ==
    /\ pc = "loop"
    /\ files > 0
    /\ \E rows \in CsvFiles :
         /\ Raises(rows, config) # ""
         /\ csv' = rows
         /\ error' = Raises(rows, config)
    /\ pc' = "raised"
    /\ UNCHANGED <<config, files, class_start, class_end, summary>>

\* line 275: analyze_file has returned, its locals are gone
NextFile ==
    /\ pc = "analyzed"
    /\ pc' = "loop"
    /\ csv' = <<>>
    /\ class_start' = 0
    /\ class_end' = 0
    /\ summary' = {}
    /\ UNCHANGED <<config, files, error>>

\* line 278
Done ==
    /\ pc = "loop"
    /\ files = 0
    /\ pc' = "done"
    /\ UNCHANGED <<config, files, csv, class_start, class_end, summary, error>>

Next ==
    \/ Main
    \/ MainNoFiles
    \/ AnalyzeFile
    \/ AnalyzeFileRaises
    \/ NextFile
    \/ Done

Spec == Init /\ [][Next]_vars

---------------------------------------------------------------------------
(* Properties *)

Summaries == summary

Threshold == config.ghost_join_max_min

\* the rows of the current file carrying the 'User Name' of summary s
RowsOf(s) == {i \in DOMAIN csv : csv[i].User_Name = s.User_Name}

\* the Duration(Minutes) cell of row i in hundredths of a minute, null as 0
DurationOf(i) == IF csv[i].Duration.kind = "number" THEN csv[i].Duration.v ELSE 0

\* the excluded identities, compared case-insensitively
ExcludedIdentities == {Lower(config.exclude[k]) : k \in DOMAIN config.exclude}

IsExcluded(name) == Lower(name) \in ExcludedIdentities

\* the rows of a participant that is not an excluded identity
NonExcludedRows ==
    LET excluded == ExcludedIdentities
    IN  {i \in DOMAIN csv : csv[i].User_Name # NoName /\ Lower(csv[i].User_Name) \notin excluded}

RECURSIVE TrimLeft(_)
TrimLeft(s) == IF s # <<>> /\ Head(s) = " " THEN TrimLeft(Tail(s)) ELSE s

RECURSIVE TrimRight(_)
TrimRight(s) ==
    IF s # <<>> /\ s[Len(s)] = " " THEN TrimRight(SubSeq(s, 1, Len(s) - 1)) ELSE s

\* the normalized participant name: lower-cased and trimmed
Normalize(name) == TrimRight(TrimLeft(Lower(name)))

StatusValues == {"Ghost Join", "Present", "Absent/Brief"}

\* C1: every summary's status follows the fixed precedence: Ghost Join when
\* total_minutes <= ghost_join_max_min, whatever the percentage; otherwise
\* Present exactly when pct_attended >= min_attendance_pct; otherwise
\* Absent/Brief; and the status is one of these three.
C1_StatusPrecedence ==
    \A s \in Summaries :
        /\ s.Status \in StatusValues
        /\ s.Total_Minutes <= Threshold * 10 => s.Status = "Ghost Join"
        /\ s.Total_Minutes > Threshold * 10 =>
              /\ s.Status = "Present" <=>
                    (s.Pct_Attended.kind = "inf" \/
                       (s.Pct_Attended.kind = "num" /\ s.Pct_Attended.v >= min_attendance_pct * 10))
              /\ s.Status # "Present" => s.Status = "Absent/Brief"

\* a ghost join whose percentage is at least min_attendance_pct
C1_Witness ==
    \E s \in Summaries :
        /\ s.Total_Minutes <= Threshold * 10
        /\ s.Pct_Attended.kind = "num"
        /\ s.Pct_Attended.v >= min_attendance_pct * 10
        /\ s.Status = "Ghost Join"

AuthorityRows ==
    LET authority == Lower(config.professor)
    IN  {i \in DOMAIN csv : Lower(csv[i].User_Name) = authority}

WindowRows ==
    LET rows == AuthorityRows
    IN  IF rows # {} THEN rows ELSE DOMAIN csv

\* C2: the class window starts at the least join time and ends at the
\* greatest leave time of the authority's rows (name matched
\* case-insensitively) when there are any, of all rows otherwise.
C2_WindowResolution ==
    pc = "analyzed" =>
        LET rows == WindowRows
        IN  /\ \E i \in rows : csv[i].Join_time.t = class_start
            /\ \A i \in rows : csv[i].Join_time.t >= class_start
            /\ \E i \in rows : csv[i].Leave_time.t = class_end
            /\ \A i \in rows : csv[i].Leave_time.t <= class_end

\* the authority is present under another letter case, and another
\* participant joined before it and left after it
C2_Witness ==
    /\ pc = "analyzed"
    /\ AuthorityRows # {}
    /\ \E i \in DOMAIN csv :
          /\ csv[i].Join_time.t < class_start
          /\ csv[i].Leave_time.t > class_end

\* C3: no two summaries share a normalized (lower-cased, trimmed)
\* participant name.
C3_OneSummaryPerNormalizedName ==
    \A s1 \in Summaries : \A s2 \in Summaries :
        Normalize(s1.User_Name) = Normalize(s2.User_Name) => s1 = s2

SumOfTotals == 10 * SumOver([s \in Summaries |-> s.Total_Minutes], Summaries)

\* sum of the durations of the non-excluded rows, in hundredths of a minute
SumOfDurations ==
    LET rows == NonExcludedRows
    IN  SumOver([i \in rows |-> DurationOf(i)], rows)

Abs(x) == IF x < 0 THEN -x ELSE x

\* C5 as stated: the sum of total_minutes over the summaries equals the sum
\* of the durations of the non-excluded rows.
C5_Conservation ==
    pc = "analyzed" => SumOfTotals = SumOfDurations

\* C5 amended: each summary's total is rounded to one decimal, so the sum of
\* total_minutes is within 0.05 minute per summary of the sum of the
\* durations of the non-excluded rows, and equals it when every duration is a
\* multiple of 0.1 minute.
C5_ConservationUpToRounding ==
    pc = "analyzed" =>
        LET totals    == SumOfTotals
            durations == SumOfDurations
        IN  /\ Abs(totals - durations) <= 5 * Cardinality(Summaries)
            /\ (\A i \in NonExcludedRows : DurationOf(i) % 10 = 0) => totals = durations

\* the rounding shows, next to the row of an excluded identity
C5_Witness ==
    /\ pc = "analyzed"
    /\ SumOfTotals # SumOfDurations
    /\ NonExcludedRows # DOMAIN csv

\* seconds between the window start and the summary's first join
LateSeconds(s) == s.First_Join - class_start

\* seconds between the summary's last leave and the window end
EarlySeconds(s) == class_end - s.Last_Leave

Flags(s) ==
    /\ s.Is_Late <=> s.Late_Join_Min > late_threshold_min * 10
    /\ s.Left_Early <=> s.Left_Early_Min > early_leave_threshold_min * 10

\* C6 as stated: late_minutes and early_leave_minutes are the offsets
\* themselves, clamped at 0, and the flags compare them strictly with the
\* thresholds.
C6_ClampedOffsets ==
    \A s \in Summaries :
        /\ s.Late_Join_Min * 6 = (IF LateSeconds(s) > 0 THEN LateSeconds(s) ELSE 0)
        /\ s.Left_Early_Min * 6 = (IF EarlySeconds(s) > 0 THEN EarlySeconds(s) ELSE 0)
        /\ Flags(s)

\* the offset in minutes rounded to one decimal, clamped at 0: tenths is it
\* when it is 0 for an offset that is not positive, and within 0.05 minute
\* (3 seconds) of a positive offset
RoundedClamped(tenths, seconds) ==
    /\ tenths >= 0
    /\ seconds <= 0 => tenths = 0
    /\ seconds > 0 => Abs(tenths * 6 - seconds) <= 3

\* C6 amended: late_minutes and early_leave_minutes are the offsets rounded
\* to one decimal and clamped at 0, never negative, and the flags compare
\* these rounded values strictly with the thresholds.
C6_RoundedClampedOffsets ==
    \A s \in Summaries :
        /\ RoundedClamped(s.Late_Join_Min, LateSeconds(s))
        /\ RoundedClamped(s.Left_Early_Min, EarlySeconds(s))
        /\ Flags(s)

\* a join 10 min 2 s after the start is rounded to the threshold and does not
\* set the flag; the same participant left after the end of the window
C6_Witness ==
    \E s \in Summaries :
        /\ LateSeconds(s) = 602
        /\ s.Late_Join_Min = late_threshold_min * 10
        /\ ~s.Is_Late
        /\ EarlySeconds(s) < 0
        /\ s.Left_Early_Min = 0

\* C7: with a class window of duration <= 0 every pct_attended is a defined,
\* non-negative number and the status is one of the three.
C7_DegenerateWindowGuard ==
    (pc = "analyzed" /\ class_end - class_start <= 0) =>
        \A s \in Summaries :
            /\ s.Pct_Attended.kind = "num"
            /\ s.Pct_Attended.v >= 0
            /\ s.Status \in StatusValues

HasMalformedRow ==
    \E i \in DOMAIN csv : csv[i].Join_time.kind = "junk" \/ csv[i].Leave_time.kind = "junk"

WellFormedRows ==
    {i \in DOMAIN csv : csv[i].Join_time.kind # "junk" /\ csv[i].Leave_time.kind # "junk"}

\* C8: a file with a row whose join or leave timestamp is unparseable is
\* still analyzed: the run does not end on it, and every well-formed row of
\* a non-excluded identity is aggregated.
C8_MalformedRowSkipped ==
    HasMalformedRow =>
        /\ pc = "analyzed"
        /\ \A i \in WellFormedRows \cap NonExcludedRows :
              \E s \in Summaries : s.User_Name = csv[i].User_Name

\* C9: every summary counts at least one session, and its real sessions are
\* its rows whose duration is strictly greater than ghost_join_max_min, no
\* more than its sessions.
C9_SessionCounts ==
    \A s \in Summaries :
        /\ s.Raw_Sessions >= 1
        /\ s.Real_Sessions <= s.Raw_Sessions
        /\ s.Real_Sessions =
              Cardinality({i \in RowsOf(s) : /\ csv[i].Duration.kind = "number"
                                             /\ csv[i].Duration.v > Threshold * 100})

\* a summary with a session as long as the threshold, and one with a null
\* duration, neither counted as real
C9_Witness ==
    /\ \E s \in Summaries : \E i \in RowsOf(s) :
          /\ Threshold > 0
          /\ csv[i].Duration.kind = "number"
          /\ csv[i].Duration.v = Threshold * 100
          /\ s.Real_Sessions < s.Raw_Sessions
    /\ \E s \in Summaries : \E i \in RowsOf(s) :
          /\ csv[i].Duration.kind = "text"
          /\ s.Real_Sessions < s.Raw_Sessions

InFlags(s, flag) == \E k \in DOMAIN s.Flags : s.Flags[k] = flag

\* C10: ghost_only and reconnected do not exclude each other: the flag list
\* names 'reconnected' exactly when real_session_count > 1 and 'ghost join'
\* exactly when total_minutes <= ghost_join_max_min, both when both hold.
C10_FlagsIndependent ==
    \A s \in Summaries :
        /\ InFlags(s, "reconnected") <=> s.Real_Sessions > 1
        /\ InFlags(s, "ghost join") <=> s.Total_Minutes <= Threshold * 10

\* a summary of non-negative durations with both flags
C10_Witness ==
    \E s \in Summaries :
        /\ Threshold >= 0
        /\ \A i \in RowsOf(s) : DurationOf(i) >= 0
        /\ s.Total_Minutes <= Threshold * 10
        /\ s.Real_Sessions > 1
        /\ s.Ghost_Only
        /\ s.Reconnected
        /\ InFlags(s, "reconnected")
        /\ InFlags(s, "ghost join")

=============================================================================
